---- MODULE Spec2Model ----
(***************************************************************************)
(* A model of python-uci: EngineCore (src/uci_chess/core.py), the bridge   *)
(* from the engine's stdout to an indexable buffer, and UCIEngine          *)
(* (src/uci_chess/engine.py), the UCI session built on it.                 *)
(*                                                                         *)
(* A line of text is modelled as the sequence of its space-separated       *)
(* fields (what str.split(" ") returns), so "a  b" is <<"a", "", "b">>.    *)
(* A raw line read from the pipe ends with the field "\n".                 *)
(***************************************************************************)
EXTENDS Integers, Sequences, FiniteSets, TLC

(* ------------------------------ bounds -------------------------------- *)

\* Lines the engines write to their stdout in a run.
MaxEmit == 3
\* API calls (constructors included) the client makes in a run.
MaxCalls == 3
\* The session timeout, counted in sleep(0.1) rounds of _wait_output_buffer.
TimeoutPolls == 1
\* Largest value the client passes to set_multi_pv.
MaxPV == 2
\* Lines the engine writes, and calls the client makes, in a run that starts
\* with the session constructed.
MaxEmitSearch == 4
MaxCallsSearch == 3
\* Depths the engine reports on in a search whose output is fixed, and the
\* lines it writes and the calls the client makes in such a run.
MaxDepth == 2
MaxEmitAligned == 6
MaxCallsAligned == 3

\* The sessions (UCIEngine objects) the program may construct.
Sessions == {1, 2}

(* --------------------------- Python values ---------------------------- *)

\* Python's None, where a string is expected.
None == "None"
\* An attribute that has not been assigned yet.
NoAttr == [missing |-> TRUE]

\* int(s) for the numerals that occur in the engine lines of the model.
StrInt == ("0" :> 0) @@ ("1" :> 1) @@ ("2" :> 2) @@ ("3" :> 3) @@ ("16" :> 16) @@ ("25" :> 25)
\* f"{n}" for the integers the client formats.
IntStr == [n \in 0..3 |-> CASE n = 0 -> "0" [] n = 1 -> "1" [] n = 2 -> "2" [] OTHER -> "3"]

\* Matches \d+ (and so -?\d+).
IsInt(tok) == tok \in DOMAIN StrInt
\* s.isEmpty-like fields that str.strip() removes at either end of a line.
IsBlank(tok) == tok \in {"", "\n"}
\* Matches [\w]+ : a field made of word characters only.
IsWord(tok) == tok \notin {"", "\n", "(none)", "Skill-Level"}

RECURSIVE Join(_)
\* ' '.join(fields)
Join(fields) ==
    IF fields = <<>> THEN ""
    ELSE IF Len(fields) = 1 THEN fields[1]
    ELSE fields[1] \o " " \o Join(Tail(fields))

RECURSIVE Strip(_)
\* str.strip(): the line without its leading and trailing white space.
Strip(fields) ==
    IF fields = <<>> THEN <<>>
    ELSE IF IsBlank(fields[1]) THEN Strip(Tail(fields))
    ELSE IF IsBlank(fields[Len(fields)]) THEN Strip(SubSeq(fields, 1, Len(fields) - 1))
    ELSE fields

\* "bestmove" in text
HasBestmove(text) == \E i \in 1..Len(text) : text[i] = "bestmove"

(* ------------------------- RE_OPTIONS_LIST ---------------------------- *)

\* The places of the field "type" that can end group 1 of RE_OPTIONS_LIST.
OptionTypeAt(text) ==
    {t \in 4..(Len(text) - 1) :
        /\ text[t] = "type"
        /\ \A i \in 3..(t - 1) : IsWord(text[i])
        /\ IsWord(text[t + 1])}

\* The place of the "default" that starts group 3, or 0 (group 2 is lazy).
OptionDefaultAt(text, t) ==
    LET ds == {d \in (t + 2)..Len(text) :
                  /\ text[d] = "default"
                  /\ \A i \in (t + 1)..(d - 1) : IsWord(text[i])}
    IN  IF ds = {} THEN 0 ELSE CHOOSE d \in ds : \A e \in ds : d <= e

\* RE_OPTIONS_LIST.match(resp) is not None
OptionMatches(text) ==
    /\ Len(text) >= 5
    /\ text[1] = "option"
    /\ text[2] = "name"
    /\ \E t \in OptionTypeAt(text) :
          \/ OptionDefaultAt(text, t) # 0
          \/ \A i \in (t + 1)..Len(text) : IsWord(text[i])

\* The dict appended to the local list available_options for a matching line.
OptionOf(text) ==
    LET ts == {t \in OptionTypeAt(text) :
                  \/ OptionDefaultAt(text, t) # 0
                  \/ \A i \in (t + 1)..Len(text) : IsWord(text[i])}
        t == CHOOSE u \in ts : \A v \in ts : v <= u
        d == OptionDefaultAt(text, t)
    IN  [name |-> Join(SubSeq(text, 3, t - 1)),
         type |-> Join(SubSeq(text, t + 1, IF d = 0 THEN Len(text) ELSE d - 1)),
         default |-> IF d = 0 THEN None ELSE Join(SubSeq(text, d, Len(text)))]

RECURSIVE OptionsDict(_)
\* {ao["name"]: {"type": ..., "default": ...} for ao in available_options}
OptionsDict(aos) ==
    IF aos = <<>> THEN <<>>
    ELSE LET ao == aos[Len(aos)]
         IN  (ao.name :> [type |-> ao.type, default |-> ao.default])
                 @@ OptionsDict(SubSeq(aos, 1, Len(aos) - 1))

(* --------------------------- RE_PARSE_INFO ---------------------------- *)

\* The places of a field "score" that is followed by (cp|mate) and a number.
InfoScoreAt(text) ==
    {k \in 2..(Len(text) - 2) :
        /\ text[k] = "score"
        /\ text[k + 1] \in {"cp", "mate"}
        /\ IsInt(text[k + 2])}

\* The places of a field "pv" after the score at k, with white space and a rest behind it.
InfoPvAt(text, k) == {p \in (k + 3)..(Len(text) - 1) : text[p] = "pv"}

\* RE_PARSE_INFO.match(text) is not None
InfoMatches(text) ==
    /\ Len(text) >= 1
    /\ text[1] = "info"
    /\ \E k \in InfoScoreAt(text) : InfoPvAt(text, k) # {}

\* Where the greedy groups of RE_PARSE_INFO end: the last score, then the last pv.
InfoGroups(text) ==
    LET ks == {k \in InfoScoreAt(text) : InfoPvAt(text, k) # {}}
        k == CHOOSE a \in ks : \A b \in ks : b <= a
        p == CHOOSE a \in InfoPvAt(text, k) : \A b \in InfoPvAt(text, k) : b <= a
    IN  [g1 |-> SubSeq(text, 2, k - 1),
         g2 |-> SubSeq(text, k + 1, k + 2),
         g3 |-> SubSeq(text, k + 3, p - 1),
         g4 |-> SubSeq(text, p + 1, Len(text))]

\* (match.group(1).strip() + " " + match.group(3).strip()).split(" ")
InfoOther(g) ==
    (IF g.g1 = <<>> THEN <<"">> ELSE g.g1) \o (IF g.g3 = <<>> THEN <<"">> ELSE g.g3)

\* tmp_output[key] after the pairing loop: the value stored last under key, or None.
InfoValue(other, key) ==
    LET at == {i \in 1..Len(other) : i % 2 = 1 /\ i < Len(other) /\ other[i] = key}
    IN  IF at = {} THEN None ELSE other[(CHOOSE a \in at : \A b \in at : b <= a) + 1]

InfoKeys == <<"depth", "seldepth", "multipv", "time">>

\* UCIEngine.parse_info: [kind |-> "none"] for None, "ok" with the dict, or
\* "raise" with the exception that leaves it.
parse_info(text) ==
    IF ~InfoMatches(text) THEN [kind |-> "none"]
    ELSE LET g == InfoGroups(text)
             other == InfoOther(g)
         IN  IF Len(other) % 2 = 1 THEN [kind |-> "raise", exc |-> "IndexError"]
             ELSE IF \E i \in 1..4 : InfoValue(other, InfoKeys[i]) = None
                  THEN [kind |-> "raise", exc |-> "KeyError"]
             ELSE IF \E i \in 1..4 : ~IsInt(InfoValue(other, InfoKeys[i]))
                  THEN [kind |-> "raise", exc |-> "ValueError"]
             ELSE [kind |-> "ok",
                   val |-> [score |-> [cp |-> IF g.g2[1] = "cp" THEN StrInt[g.g2[2]] ELSE -1,
                                       mate |-> IF g.g2[1] = "mate" THEN StrInt[g.g2[2]] ELSE -1,
                                       set |-> g.g2[1]],
                            moves |-> g.g4,
                            next_move |-> g.g4[1],
                            depth |-> StrInt[InfoValue(other, "depth")],
                            seldepth |-> StrInt[InfoValue(other, "seldepth")],
                            multipv |-> StrInt[InfoValue(other, "multipv")],
                            time |-> StrInt[InfoValue(other, "time")]]]

(* ---------------------------- RE_BEST_MOVE ---------------------------- *)

\* The characters of the move tokens that occur in the engine lines of the model.
MoveChars ==
    ("e2e4" :> <<"e", "2", "e", "4">>) @@ ("e7e5" :> <<"e", "7", "e", "5">>)
        @@ ("e7e8q" :> <<"e", "7", "e", "8", "q">>) @@ ("e7e8" :> <<"e", "7", "e", "8">>)
        @@ ("(none)" :> <<"(", "n", "o", "n", "e", ")">>)

\* [abcdefgh12345678]
SquareChars == {"a", "b", "c", "d", "e", "f", "g", "h", "1", "2", "3", "4", "5", "6", "7", "8"}

\* Whether ([abcdefgh12345678]{4}) matches at the start of the token.
MoveMatches(tok) ==
    /\ tok \in DOMAIN MoveChars
    /\ Len(MoveChars[tok]) >= 4
    /\ \A i \in 1..4 : MoveChars[tok][i] \in SquareChars

\* What ([abcdefgh12345678]{4}) captures of the token: its first four characters.
MoveGroup(tok) ==
    LET c == MoveChars[tok] IN c[1] \o c[2] \o c[3] \o c[4]

\* RE_BEST_MOVE.match(resp) is not None
BestMatches(text) ==
    /\ Len(text) >= 2
    /\ text[1] = "bestmove"
    /\ MoveMatches(text[2])

\* match.group(1), match.group(2) of RE_BEST_MOVE on a matching line.
BestGroups(text) ==
    [bestmove |-> MoveGroup(text[2]),
     ponder |-> IF /\ Len(MoveChars[text[2]]) = 4
                   /\ Len(text) >= 4
                   /\ text[3] = "ponder"
                   /\ MoveMatches(text[4])
                THEN MoveGroup(text[4]) ELSE None]

(* --------------------------- engine output ---------------------------- *)

\* What an engine writes while it answers "uci".
UciLines ==
    {<<"id", "name", "SF">>,
     <<"option", "name", "Skill-Level", "type", "spin", "default", "16">>,
     <<"option", "name", "MultiPV", "type", "spin", "default", "1">>,
     <<"option", "name", "Ponder">>,
     <<"uciok">>}

\* What an engine writes while it answers "isready".
ReadyLines == {<<"readyok">>, <<"id", "name", "SF">>}

\* What an engine writes while it searches.
GoLines ==
    {<<"info", "depth", "1", "seldepth", "1", "multipv", "1", "score", "cp", "25", "time", "3", "pv", "e2e4", "e7e5">>,
     <<"info", "depth", "1", "seldepth", "1", "multipv", "2", "score", "mate", "3", "time", "3", "pv", "e7e5">>,
     <<"info", "depth", "1", "multipv", "1", "score", "cp", "25", "time", "3", "pv", "e2e4">>,
     <<"info", "depth", "1", "seldepth", "1", "multipv", "1", "time", "3", "score", "cp", "25", "pv", "e2e4">>,
     <<"info", "string", "hello">>,
     <<"bestmove", "e2e4", "ponder", "e7e5">>,
     <<"bestmove", "e7e8q">>,
     <<"bestmove", "(none)">>}

\* What the engine may write next, by the last of uci / isready / go it was sent.
LinesFor(m) ==
    CASE m = "uci" -> UciLines
      [] m = "isready" -> ReadyLines
      [] m = "go" -> GoLines
      [] OTHER -> {}

(* ------------------------------- state -------------------------------- *)

VARIABLES
    live,           \* the sessions the client program constructs in this run
    script,         \* per session: what its engine is set to write, when that is fixed
    calls_left,     \* calls the client still makes in this run
    lines_left,     \* lines the engines still write in this run
    output_queue,   \* per session: EngineCore._output_queue
    output_buffer,  \* EngineCore.output_buffer, the class attribute
    mode,           \* per session: the last of uci / isready / go its engine was sent
    nemit,          \* per session: lines its engine has written
    sess            \* per session: the UCIEngine object, its EngineCore and its caller

vars == <<live, script, calls_left, lines_left, output_queue, output_buffer, mode, nemit, sess>>

\* A line on its way: its text, the line as the engine wrote it (raw), the
\* session whose engine wrote it (src), and its position among the lines of
\* that engine (id).
NoLine == [id |-> 0, src |-> 0, raw |-> <<>>, text |-> <<>>]

\* The fields of sess[s] before the constructor runs.
NewSession ==
    [pc |-> "new",                  \* where the calling thread is in this session's code
     ctx |-> "none",                \* the caller of is_ready: "is_ready" or "set_position"
     pending |-> <<>>,              \* command_str set_position sends after is_ready
     available_options |-> NoAttr,  \* EngineCore.available_options
     hs_list |-> <<>>,              \* the local list available_options of __init__
     hs_read |-> <<>>,              \* the lines __init__ has read so far
     override |-> <<>>,             \* options_override, until __init__ has applied it
     current_multi_pv |-> 1,        \* UCIEngine.current_multi_pv
     multipv_sent |-> 1,            \* the MultiPV value last sent to the engine, 1 if none was
     want |-> 0,                    \* entries the current wait needs in the buffer
     elapsed |-> 0,                 \* sleep rounds since start_time of the current wait
     slept |-> 0,                   \* sleep rounds since the call that is running began
     gen |-> "none",                \* the generator of go: "struct", "raw", "done" or "none"
     lines_list |-> <<>>,           \* go's lines_list
     continue_flg |-> TRUE,         \* go's continue_flg
     raw_resp |-> <<>>,             \* go's resp in raw mode
     err |-> "none",                \* the exception that ended the last call, or "none"
     sent |-> <<>>,                 \* what the current or last call wrote to engine.stdin
     output |-> NoAttr,             \* the snapshot the last call yielded
     ntake |-> 0,                   \* lines EngineCore.get has returned to this session
     last_take |-> NoLine,          \* the line EngineCore.get returned last in the last call
     last_view |-> NoLine]          \* the line EngineCore.view returned last in the last call

WaitPcs == {"hs", "ready", "get", "view", "go_info", "go_view", "go_best", "raw"}

\* The program before it constructs the sessions of l, with its bounds.
Start(l, calls, lines) ==
    /\ live = l
    /\ script = [s \in Sessions |-> <<>>]
    /\ calls_left = calls
    /\ lines_left = lines
    /\ output_queue = [s \in Sessions |-> <<>>]
    /\ output_buffer = <<>>
    /\ mode = [s \in Sessions |-> "off"]
    /\ nemit = [s \in Sessions |-> 0]
    /\ sess = [s \in Sessions |-> NewSession]

\* A program with one session.
Init == Start({1}, MaxCalls, MaxEmit)

\* A program with two sessions.
InitTwo == Start({1, 2}, MaxCalls, MaxEmit)

(* ----------------------------- reader thread -------------------------- *)

\* What _read_output_to_queue puts on the queue for a line it has read.
Published(line) == [line EXCEPT !.text = Strip(line.raw)]

\* One round of the loop of _read_output_to_queue, run by buffer_daemon:
\* out.readline returns the line l that the engine of session s wrote next, and
\* the line is put on the queue.
ReadOutputToQueue(s, l) ==
    /\ sess[s].pc \notin {"new", "failed"}
    /\ lines_left > 0
    /\ l \in LinesFor(mode[s])
    /\ lines_left' = lines_left - 1
    /\ nemit' = [nemit EXCEPT ![s] = @ + 1]
    /\ output_queue' = [output_queue EXCEPT
                            ![s] = Append(@, Published([id |-> nemit[s] + 1, src |-> s,
                                                        raw |-> l \o <<"\n">>,
                                                        text |-> <<>>]))]
    /\ UNCHANGED <<live, script, calls_left, output_buffer, mode, sess>>

(* --------------------------- EngineCore I/O ---------------------------- *)

\* A drain that puts each entry of the queue at the front of the buffer.
MoveFromQueueToBufferFront(buffer, q) ==
    [i \in 1..Len(q) |-> q[Len(q) + 1 - i]] \o buffer

\* The buffer after _move_from_queue_to_buffer has emptied the queue q into it.
MoveFromQueueToBuffer(buffer, q) == buffer \o q

\* The loop condition of _wait_output_buffer.
Waiting(s) == Len(output_buffer) < sess[s].want /\ sess[s].elapsed < TimeoutPolls

\* One round of the loop of _wait_output_buffer: sleep(0.1), then drain the queue.
WaitOutputBuffer(s) ==
    /\ sess[s].pc \in WaitPcs
    /\ Waiting(s)
    /\ sess' = [sess EXCEPT ![s].elapsed = @ + 1, ![s].slept = @ + 1]
    /\ output_buffer' = MoveFromQueueToBuffer(output_buffer, output_queue[s])
    /\ output_queue' = [output_queue EXCEPT ![s] = <<>>]
    /\ UNCHANGED <<live, script, calls_left, lines_left, mode, nemit>>

\* The engine's mode after put(message) for each message of cmds.
ModeAfter(m, cmds) ==
    LET at == {i \in 1..Len(cmds) : cmds[i][1] \in {"uci", "isready", "go"}}
    IN  IF at = {} THEN m ELSE cmds[CHOOSE a \in at : \A b \in at : b <= a][1]

\* The MultiPV value the engine holds after it was sent cmds, when it held v:
\* the value of the last "setoption name MultiPV value <n>" among them.
MultiPvAfter(v, cmds) ==
    LET at == {i \in 1..Len(cmds) :
                  /\ Len(cmds[i]) = 5
                  /\ SubSeq(cmds[i], 1, 4) = <<"setoption", "name", "MultiPV", "value">>
                  /\ IsInt(cmds[i][5])}
    IN  IF at = {} THEN v ELSE StrInt[cmds[CHOOSE a \in at : \A b \in at : b <= a][5]]

\* put(message) for each message of cmds, as the session records it.
Put(r, cmds) == [r EXCEPT !.sent = @ \o cmds, !.multipv_sent = MultiPvAfter(@, cmds)]

\* The wait of session s at p has ended: the buffer is long enough, or the time is up.
WaitOver(s, p) == sess[s].pc = p /\ ~Waiting(s)

\* output_buffer.pop(0) / output_buffer[i] raise IndexError on a buffer too short.
TooShort(s) == Len(output_buffer) < sess[s].want

\* The session after exception exc has left the call running on it.
Raise(r, exc) ==
    [r EXCEPT !.pc = IF r.pc = "hs" THEN "failed" ELSE "idle",
              !.err = exc,
              !.gen = IF r.pc \in {"go_info", "go_view", "go_best", "raw"} THEN "none" ELSE @,
              !.ctx = "none", !.pending = <<>>, !.hs_list = <<>>, !.hs_read = <<>>, !.override = <<>>,
              !.lines_list = <<>>, !.want = 0, !.elapsed = 0, !.slept = 0]

\* The session after the call running on it has returned (or its generator yielded).
Return(r) ==
    [r EXCEPT !.pc = "idle", !.err = "none", !.ctx = "none", !.pending = <<>>,
              !.hs_list = <<>>, !.hs_read = <<>>, !.override = <<>>, !.lines_list = <<>>,
              !.want = 0, !.elapsed = 0, !.slept = 0]

\* The session after self.output_buffer.pop(0) has handed it line.
Take(r, line) == [r EXCEPT !.ntake = @ + 1, !.last_take = line]

\* A wait whose clock is the clock of the whole call, not its own.
StartWaitOnCallClock(r, p, n) == [r EXCEPT !.pc = p, !.want = n, !.elapsed = r.slept]

\* The session as EngineCore.get / view starts to wait at p for n entries:
\* start_time = timer().
StartWait(r, p, n) == [r EXCEPT !.pc = p, !.want = n, !.elapsed = 0]

\* The client program runs on one thread: it starts a call on session s only
\* when it is not inside a call on another session.
ClientFree(s) == \A t \in Sessions \ {s} : sess[t].pc \in {"new", "idle", "failed"}

\* A call can start on the constructed session s.
CanCall(s) == sess[s].pc = "idle" /\ calls_left > 0 /\ ClientFree(s)

\* The session as a call starts on it: what the call before handed back is gone.
Begin(r) ==
    [r EXCEPT !.err = "none", !.sent = <<>>, !.output = NoAttr,
              !.last_take = NoLine, !.last_view = NoLine]

(* ------------------------------ inputs -------------------------------- *)

\* options_override arguments of the constructor: dicts, as lists of items.
Overrides == {<<>>, << <<"MultiPV", "2">> >>}
\* Option names and values the client passes to set_option.
OptionNames == {"MultiPV", "Ponder"}
OptionValues == {None, "2"}
\* fen arguments of set_position.
Fens == {None, "8/8/8/8/8/8/8/8"}
\* moves arguments of set_position: None, or a list.
MovesArgs == {[given |-> FALSE, list |-> <<>>], [given |-> TRUE, list |-> <<>>],
              [given |-> TRUE, list |-> <<"e2e4", "e7e5">>]}
\* depth arguments of go: None, or a number.
Depths == {[given |-> FALSE, value |-> 0], [given |-> TRUE, value |-> 3]}

(* ------------------------- command construction ----------------------- *)

\* A set_option that writes its command whatever the engine declared.
SetOptionSendsUnchecked(opts, name, option) ==
    << <<"setoption", "name", name>>
         \o (IF option # None /\ option # "" THEN <<"value", option>> ELSE <<"">>) >>

\* What set_option writes to the engine: nothing for a name the engine did not
\* declare, else the command f"setoption name {name} {value_str}".
SetOptionSends(opts, name, option) ==
    IF name \notin DOMAIN opts THEN <<>>
    ELSE << <<"setoption", "name", name>>
              \o (IF option # None /\ option # "" THEN <<"value", option>> ELSE <<"">>) >>

RECURSIVE OverrideSends(_, _)
\* The loop over options_override.items() in UCIEngine.__init__.
OverrideSends(opts, items) ==
    IF items = <<>> THEN <<>>
    ELSE SetOptionSends(opts, items[1][1], items[1][2]) \o OverrideSends(opts, Tail(items))

\* command_str of set_position: f"position {position_str} {moves_str}"
PositionCommand(fen, moves) ==
    <<"position">>
        \o (IF fen = None THEN <<"startpos">> ELSE <<"fen", fen>>)
        \o (IF ~moves.given THEN <<"">>
            ELSE <<"moves">> \o (IF moves.list = <<>> THEN <<"">> ELSE moves.list))

\* command_str of go, for the depth argument alone.
GoCommand(depth) ==
    <<"go">> \o (IF ~depth.given THEN <<"infinite">> ELSE <<"depth", IntStr[depth.value]>>)

(* ------------------- EngineCore.__init__ / UCIEngine.__init__ ---------- *)

\* The constructor up to its first self.get(): the process and the reader
\* thread are started and "uci" is sent.
Construct(s, ov) ==
    /\ s \in live
    /\ sess[s].pc = "new"
    /\ calls_left > 0
    /\ ClientFree(s)
    /\ calls_left' = calls_left - 1
    /\ sess' = [sess EXCEPT ![s] = StartWait(Put([@ EXCEPT !.override = ov], << <<"uci">> >>), "hs", 1)]
    /\ mode' = [mode EXCEPT ![s] = "uci"]
    /\ UNCHANGED <<live, script, lines_left, output_queue, output_buffer, nemit>>

\* The session when the handshake has read "uciok": available_options is built,
\* and UCIEngine.__init__ sets current_multi_pv and applies options_override.
Handshaken(r) ==
    LET opts == OptionsDict(r.hs_list)
    IN  Return(Put([r EXCEPT !.available_options = opts, !.current_multi_pv = 1],
                   OverrideSends(opts, r.override)))

\* The handshake loop: one self.get() has returned (or failed) in __init__.
Handshake(s) ==
    /\ WaitOver(s, "hs")
    /\ IF TooShort(s)
       THEN /\ sess' = [sess EXCEPT ![s] = Raise(@, "IndexError")]
            /\ UNCHANGED <<output_buffer, mode>>
       ELSE LET resp == Head(output_buffer).text
                r == Take(sess[s], Head(output_buffer))
            IN  /\ output_buffer' = Tail(output_buffer)
                /\ IF resp = <<"uciok">>
                   THEN /\ sess' = [sess EXCEPT ![s] = Handshaken(r)]
                        /\ mode' = [mode EXCEPT ![s] = ModeAfter(@, Handshaken(r).sent)]
                   ELSE /\ sess' = [sess EXCEPT
                                       ![s] = StartWait([r EXCEPT
                                                            !.hs_read = Append(@, resp),
                                                            !.hs_list = IF OptionMatches(resp)
                                                                        THEN Append(@, OptionOf(resp))
                                                                        ELSE @],
                                                        "hs", 1)]
                        /\ UNCHANGED mode
    /\ UNCHANGED <<live, script, calls_left, lines_left, output_queue, nemit>>

(* --------------------------- calls without wait ------------------------ *)

\* A set_option that also records the value it sent as the option's default.
set_option_recording(s, name, option) ==
    /\ sess[s].pc = "idle" /\ calls_left > 0
    /\ \A t \in Sessions \ {s} : sess[t].pc \in {"new", "idle", "failed"}
    /\ calls_left' = calls_left - 1
    /\ LET opts == sess[s].available_options
           cmds == IF name \notin DOMAIN opts THEN <<>>
                   ELSE << <<"setoption", "name", name>>
                             \o (IF option # None /\ option # "" THEN <<"value", option>> ELSE <<"">>) >>
       IN  /\ sess' = [sess EXCEPT
                          ![s] = [@ EXCEPT !.err = "none", !.sent = cmds, !.output = NoAttr,
                                           !.last_take = NoLine, !.last_view = NoLine,
                                           !.available_options =
                                               IF name \in DOMAIN opts
                                               THEN [opts EXCEPT ![name].default = option]
                                               ELSE opts]]
           /\ UNCHANGED mode
    /\ UNCHANGED <<live, script, lines_left, output_queue, output_buffer, nemit>>

\* UCIEngine.set_option(name, option)
set_option(s, name, option) ==
    /\ CanCall(s)
    /\ calls_left' = calls_left - 1
    /\ LET cmds == SetOptionSends(sess[s].available_options, name, option)
       IN  /\ sess' = [sess EXCEPT ![s] = Return(Put(Begin(@), cmds))]
           /\ mode' = [mode EXCEPT ![s] = ModeAfter(@, cmds)]
    /\ UNCHANGED <<live, script, lines_left, output_queue, output_buffer, nemit>>

\* UCIEngine.set_multi_pv(value)
set_multi_pv(s, value) ==
    /\ CanCall(s)
    /\ calls_left' = calls_left - 1
    /\ LET cmds == SetOptionSends(sess[s].available_options, "MultiPV", IntStr[value])
       IN  /\ sess' = [sess EXCEPT ![s] = Return([Put(Begin(@), cmds) EXCEPT !.current_multi_pv = value])]
           /\ mode' = [mode EXCEPT ![s] = ModeAfter(@, cmds)]
    /\ UNCHANGED <<live, script, lines_left, output_queue, output_buffer, nemit>>

\* A stop that also ends the sequence of a go in progress.
stop_ending(s) ==
    /\ sess[s].pc = "idle" /\ calls_left > 0
    /\ \A t \in Sessions \ {s} : sess[t].pc \in {"new", "idle", "failed"}
    /\ calls_left' = calls_left - 1
    /\ sess' = [sess EXCEPT
                   ![s] = [@ EXCEPT !.err = "none", !.sent = << <<"stop">> >>, !.output = NoAttr,
                                    !.last_take = NoLine, !.last_view = NoLine,
                                    !.gen = IF @ \in {"struct", "raw"} THEN "done" ELSE @]]
    /\ UNCHANGED <<live, script, lines_left, output_queue, output_buffer, mode, nemit>>

\* EngineCore.stop()
stop(s) ==
    /\ CanCall(s)
    /\ calls_left' = calls_left - 1
    /\ sess' = [sess EXCEPT ![s] = Return(Put(Begin(@), << <<"stop">> >>))]
    /\ UNCHANGED <<live, script, lines_left, output_queue, output_buffer, mode, nemit>>

(* ------------------------ is_ready / set_position ---------------------- *)

\* EngineCore.is_ready() up to its first self.get().
is_ready(s) ==
    /\ CanCall(s)
    /\ calls_left' = calls_left - 1
    /\ sess' = [sess EXCEPT ![s] = StartWait([Put(Begin(@), << <<"isready">> >>) EXCEPT
                                                 !.ctx = "is_ready"], "ready", 1)]
    /\ mode' = [mode EXCEPT ![s] = "isready"]
    /\ UNCHANGED <<live, script, lines_left, output_queue, output_buffer, nemit>>

\* A set_position that writes its position command along with "isready".
set_position_eager(s, fen, moves) ==
    /\ sess[s].pc = "idle" /\ calls_left > 0
    /\ \A t \in Sessions \ {s} : sess[t].pc \in {"new", "idle", "failed"}
    /\ calls_left' = calls_left - 1
    /\ sess' = [sess EXCEPT
                   ![s] = [@ EXCEPT !.err = "none", !.output = NoAttr,
                                    !.last_take = NoLine, !.last_view = NoLine,
                                    !.sent = << <<"ucinewgame">>, <<"isready">>,
                                                <<"position", "startpos", "">> >>,
                                    !.ctx = "is_ready",
                                    !.pc = "ready", !.want = 1, !.elapsed = 0]]
    /\ mode' = [mode EXCEPT ![s] = "isready"]
    /\ UNCHANGED <<live, script, lines_left, output_queue, output_buffer, nemit>>

\* UCIEngine.set_position(fen, moves) up to the first self.get() of is_ready:
\* _ucinewgame sends "ucinewgame" and calls is_ready.
set_position(s, fen, moves) ==
    /\ CanCall(s)
    /\ calls_left' = calls_left - 1
    /\ sess' = [sess EXCEPT
                   ![s] = StartWait([Put(Begin(@), << <<"ucinewgame">>, <<"isready">> >>) EXCEPT
                                        !.ctx = "set_position",
                                        !.pending = PositionCommand(fen, moves)],
                                    "ready", 1)]
    /\ mode' = [mode EXCEPT ![s] = "isready"]
    /\ UNCHANGED <<live, script, lines_left, output_queue, output_buffer, nemit>>

\* The session when is_ready has read "readyok": is_ready returns, and
\* set_position, if it is the caller, sends its command.
Ready(r) ==
    Return(Put(r, IF r.ctx = "set_position" THEN << r.pending >> ELSE <<>>))

\* An is_ready that empties the buffer when it has read "readyok".
ReadyLoopClears(s) ==
    /\ sess[s].pc = "ready" /\ ~Waiting(s)
    /\ IF TooShort(s)
       THEN /\ sess' = [sess EXCEPT ![s] = Raise(@, "IndexError")]
            /\ UNCHANGED output_buffer
       ELSE LET resp == Head(output_buffer).text
                r == Take(sess[s], Head(output_buffer))
            IN  IF resp = <<"readyok">>
                THEN /\ output_buffer' = <<>>
                     /\ sess' = [sess EXCEPT ![s] = Ready(r)]
                ELSE /\ output_buffer' = Tail(output_buffer)
                     /\ sess' = [sess EXCEPT ![s] = StartWait(r, "ready", 1)]
    /\ UNCHANGED <<live, script, calls_left, lines_left, output_queue, mode, nemit>>

\* The loop of is_ready: one self.get() has returned (or failed).
ReadyLoop(s) ==
    /\ WaitOver(s, "ready")
    /\ IF TooShort(s)
       THEN /\ sess' = [sess EXCEPT ![s] = Raise(@, "IndexError")]
            /\ UNCHANGED output_buffer
       ELSE LET resp == Head(output_buffer).text
                r == Take(sess[s], Head(output_buffer))
            IN  /\ output_buffer' = Tail(output_buffer)
                /\ sess' = [sess EXCEPT ![s] = IF resp = <<"readyok">>
                                               THEN Ready(r)
                                               ELSE StartWait(r, "ready", 1)]
    /\ UNCHANGED <<live, script, calls_left, lines_left, output_queue, mode, nemit>>

(* ----------------------------- get / view ------------------------------ *)

\* The client calls EngineCore.get() itself: up to the wait.
get(s) ==
    /\ CanCall(s)
    /\ calls_left' = calls_left - 1
    /\ sess' = [sess EXCEPT ![s] = StartWait(Begin(@), "get", 1)]
    /\ UNCHANGED <<live, script, lines_left, output_queue, output_buffer, mode, nemit>>

\* EngineCore.get() after the wait: result = self.output_buffer.pop(0)
GetReturn(s) ==
    /\ WaitOver(s, "get")
    /\ IF TooShort(s)
       THEN /\ sess' = [sess EXCEPT ![s] = Raise(@, "IndexError")]
            /\ UNCHANGED output_buffer
       ELSE /\ sess' = [sess EXCEPT ![s] = Return(Take(@, Head(output_buffer)))]
            /\ output_buffer' = Tail(output_buffer)
    /\ UNCHANGED <<live, script, calls_left, lines_left, output_queue, mode, nemit>>

\* The client calls EngineCore.view(index_to_view) itself: up to the wait.
view(s, index_to_view) ==
    /\ CanCall(s)
    /\ calls_left' = calls_left - 1
    /\ sess' = [sess EXCEPT ![s] = StartWait(Begin(@), "view", index_to_view + 1)]
    /\ UNCHANGED <<live, script, lines_left, output_queue, output_buffer, mode, nemit>>

\* A view that removes the entry it returns.
ViewReturnPop(s) ==
    /\ sess[s].pc = "view" /\ ~Waiting(s)
    /\ IF TooShort(s)
       THEN /\ sess' = [sess EXCEPT ![s] = Raise(@, "IndexError")]
            /\ UNCHANGED output_buffer
       ELSE /\ sess' = [sess EXCEPT ![s] = Return([@ EXCEPT !.last_view = output_buffer[sess[s].want]])]
            /\ output_buffer' = [i \in 1..(Len(output_buffer) - 1) |->
                                     IF i < sess[s].want THEN output_buffer[i]
                                     ELSE output_buffer[i + 1]]
    /\ UNCHANGED <<live, script, calls_left, lines_left, output_queue, mode, nemit>>

\* EngineCore.view() after the wait: result = self.output_buffer[index_to_view]
ViewReturn(s) ==
    /\ WaitOver(s, "view")
    /\ sess' = [sess EXCEPT
                   ![s] = IF TooShort(s)
                          THEN Raise(@, "IndexError")
                          ELSE Return([@ EXCEPT !.last_view = output_buffer[sess[s].want]])]
    /\ UNCHANGED <<live, script, calls_left, lines_left, output_queue, output_buffer, mode, nemit>>

(* --------------------------------- go ---------------------------------- *)

\* The dict go builds from lines_list before it looks for the bestmove line.
Snapshot(lines) ==
    [next_move |-> lines[1].next_move,
     score |-> lines[1].score,
     lines |-> lines,
     bestmove |-> None,
     ponder |-> None]

\* One pass of "while continue_flg" starts in the structured mode: lines_list = []
\* and the for loop over range(current_multi_pv) calls self.engine.get(); with an
\* empty range, lines_list[0] raises IndexError.
StructPass(r) ==
    IF r.current_multi_pv = 0
    THEN [Raise(r, "IndexError") EXCEPT !.gen = "none"]
    ELSE StartWait([r EXCEPT !.gen = "struct", !.lines_list = <<>>], "go_info", 1)

\* UCIEngine.go(depth, raw_output) and the first next() on the generator it
\* returns: the command is sent and the first self.engine.get() starts.
go(s, raw_output, depth) ==
    /\ CanCall(s)
    /\ calls_left' = calls_left - 1
    /\ LET r == [Put(Begin(sess[s]), << GoCommand(depth) >>) EXCEPT
                    !.continue_flg = TRUE, !.raw_resp = <<>>]
       IN  sess' = [sess EXCEPT ![s] = IF raw_output
                                       THEN StartWait([r EXCEPT !.gen = "raw"], "raw", 1)
                                       ELSE StructPass(r)]
    /\ mode' = [mode EXCEPT ![s] = "go"]
    /\ UNCHANGED <<live, script, lines_left, output_queue, output_buffer, nemit>>

\* The generator is exhausted: the while loop has ended.
Exhausted(r) == [Return(r) EXCEPT !.gen = "done", !.raw_resp = <<>>]

\* next() on a suspended generator: the loop condition is tested again.
GoNext(s) ==
    /\ CanCall(s)
    /\ sess[s].gen \in {"struct", "raw"}
    /\ calls_left' = calls_left - 1
    /\ LET r == Begin(sess[s])
       IN  sess' = [sess EXCEPT
                       ![s] = IF r.gen = "raw"
                              THEN IF HasBestmove(r.raw_resp)
                                   THEN Exhausted(r)
                                   ELSE StartWait(r, "raw", 1)
                              ELSE IF r.continue_flg
                                   THEN StructPass(r)
                                   ELSE Exhausted(r)]
    /\ UNCHANGED <<live, script, lines_left, output_queue, output_buffer, mode, nemit>>

\* A go that looks for the bestmove line as soon as one line has parsed.
InfoStepOnce(r, parsed) ==
    CASE parsed.kind = "raise" -> Raise(r, parsed.exc)
      [] parsed.kind = "none" -> StartWait(r, "go_info", 1)
      [] OTHER -> StartWait([r EXCEPT !.lines_list = Append(@, parsed.val)], "go_view", 1)

\* The session after parse_info has been applied, in the for / while loops of
\* the structured mode, to the line self.engine.get() returned.
InfoStep(r, parsed) ==
    CASE parsed.kind = "raise" -> Raise(r, parsed.exc)
      [] parsed.kind = "none" -> StartWait(r, "go_info", 1)
      [] OTHER ->
           StartWait([r EXCEPT !.lines_list = Append(@, parsed.val)],
                     IF Len(r.lines_list) + 1 = r.current_multi_pv THEN "go_view" ELSE "go_info",
                     1)

\* Structured mode: one self.engine.get() of the for / while loops has returned
\* (or failed).
GoInfo(s) ==
    /\ WaitOver(s, "go_info")
    /\ IF TooShort(s)
       THEN /\ sess' = [sess EXCEPT ![s] = Raise(@, "IndexError")]
            /\ UNCHANGED output_buffer
       ELSE /\ sess' = [sess EXCEPT ![s] = InfoStep(Take(@, Head(output_buffer)),
                                                    parse_info(Head(output_buffer).text))]
            /\ output_buffer' = Tail(output_buffer)
    /\ UNCHANGED <<live, script, calls_left, lines_left, output_queue, mode, nemit>>

\* The session as go yields the snapshot out.
Yield(r, out) == [Return(r) EXCEPT !.output = out]

\* A go that takes the line it looks at after a snapshot's lines.
GoViewTaking(s) ==
    /\ sess[s].pc = "go_view" /\ ~Waiting(s)
    /\ IF TooShort(s)
       THEN /\ sess' = [sess EXCEPT ![s] = Raise(@, "IndexError")]
            /\ UNCHANGED output_buffer
       ELSE LET r == [sess[s] EXCEPT !.last_view = output_buffer[1]]
            IN  IF HasBestmove(output_buffer[1].text)
                THEN /\ sess' = [sess EXCEPT ![s] = StartWait(r, "go_best", 1)]
                     /\ UNCHANGED output_buffer
                ELSE /\ sess' = [sess EXCEPT ![s] = Yield(Take(r, output_buffer[1]),
                                                           Snapshot(r.lines_list))]
                     /\ output_buffer' = Tail(output_buffer)
    /\ UNCHANGED <<live, script, calls_left, lines_left, output_queue, mode, nemit>>

\* Structured mode: self.engine.view(index_to_view=0) has returned (or failed);
\* without "bestmove" in next_resp the snapshot is yielded.
GoView(s) ==
    /\ WaitOver(s, "go_view")
    /\ sess' = [sess EXCEPT
                   ![s] = IF TooShort(s)
                          THEN Raise(@, "IndexError")
                          ELSE LET r == [@ EXCEPT !.last_view = output_buffer[1]]
                               IN  IF HasBestmove(output_buffer[1].text)
                                   THEN StartWait(r, "go_best", 1)
                                   ELSE Yield(r, Snapshot(r.lines_list))]
    /\ UNCHANGED <<live, script, calls_left, lines_left, output_queue, output_buffer, mode, nemit>>

\* A go that fills in bestmove and ponder but leaves continue_flg as it is.
BestStepContinues(r, resp) ==
    IF ~BestMatches(resp)
    THEN Raise(r, "AttributeError")
    ELSE Yield(r, [Snapshot(r.lines_list) EXCEPT !.bestmove = BestGroups(resp).bestmove,
                                                 !.ponder = BestGroups(resp).ponder])

\* The session after RE_BEST_MOVE has been applied to the line resp that holds
\* "bestmove": match.group raises AttributeError when match is None.
BestStep(r, resp) ==
    IF ~BestMatches(resp)
    THEN Raise(r, "AttributeError")
    ELSE Yield([r EXCEPT !.continue_flg = FALSE],
               [Snapshot(r.lines_list) EXCEPT !.bestmove = BestGroups(resp).bestmove,
                                              !.ponder = BestGroups(resp).ponder])

\* Structured mode, "bestmove" in next_resp: self.engine.get() has returned (or failed).
GoBest(s) ==
    /\ WaitOver(s, "go_best")
    /\ IF TooShort(s)
       THEN /\ sess' = [sess EXCEPT ![s] = Raise(@, "IndexError")]
            /\ UNCHANGED output_buffer
       ELSE /\ sess' = [sess EXCEPT ![s] = BestStep(Take(@, Head(output_buffer)),
                                                    Head(output_buffer).text)]
            /\ output_buffer' = Tail(output_buffer)
    /\ UNCHANGED <<live, script, calls_left, lines_left, output_queue, mode, nemit>>

\* A raw mode that yields the line at the head of the buffer and leaves it there.
GoRawPeek(s) ==
    /\ sess[s].pc = "raw" /\ ~Waiting(s)
    /\ IF TooShort(s)
       THEN sess' = [sess EXCEPT ![s] = Raise(@, "IndexError")]
       ELSE sess' = [sess EXCEPT ![s] = Return([@ EXCEPT !.raw_resp = Head(output_buffer).text])]
    /\ UNCHANGED <<live, script, calls_left, lines_left, output_queue, output_buffer, mode, nemit>>

\* Raw mode: self.engine.get() has returned (or failed) and resp is yielded.
GoRaw(s) ==
    /\ WaitOver(s, "raw")
    /\ IF TooShort(s)
       THEN /\ sess' = [sess EXCEPT ![s] = Raise(@, "IndexError")]
            /\ UNCHANGED output_buffer
       ELSE /\ sess' = [sess EXCEPT ![s] = Return([Take(@, Head(output_buffer)) EXCEPT
                                                      !.raw_resp = Head(output_buffer).text])]
            /\ output_buffer' = Tail(output_buffer)
    /\ UNCHANGED <<live, script, calls_left, lines_left, output_queue, mode, nemit>>

(* ---------------------------- specification ---------------------------- *)

Next ==
    \E s \in Sessions :
        \/ \E l \in UciLines \cup ReadyLines \cup GoLines : ReadOutputToQueue(s, l)
        \/ WaitOutputBuffer(s)
        \/ \E ov \in Overrides : Construct(s, ov)
        \/ Handshake(s)
        \/ \E name \in OptionNames, option \in OptionValues : set_option(s, name, option)
        \/ \E value \in 0..MaxPV : set_multi_pv(s, value)
        \/ stop(s)
        \/ is_ready(s)
        \/ \E fen \in Fens, moves \in MovesArgs : set_position(s, fen, moves)
        \/ ReadyLoop(s)
        \/ get(s)
        \/ GetReturn(s)
        \/ \E i \in 0..1 : view(s, i)
        \/ ViewReturn(s)
        \/ \E raw_output \in BOOLEAN, depth \in Depths : go(s, raw_output, depth)
        \/ GoNext(s)
        \/ GoInfo(s)
        \/ GoView(s)
        \/ GoBest(s)
        \/ GoRaw(s)

Spec == Init /\ [][Next]_vars

SpecTwo == InitTwo /\ [][Next]_vars

(* ------------------------- searches of one session --------------------- *)

\* Session 1 as its constructor leaves it, without options_override, when the
\* engine answers "uci" with a declaration of MultiPV and "uciok".
Handshook ==
    LET decl == <<"option", "name", "MultiPV", "type", "spin", "default", "1">>
        l1 == Published([id |-> 1, src |-> 1, raw |-> decl \o <<"\n">>, text |-> <<>>])
        l2 == Published([id |-> 2, src |-> 1, raw |-> <<"uciok", "\n">>, text |-> <<>>])
        r0 == StartWait(Put(NewSession, << <<"uci">> >>), "hs", 1)
        r1 == [Take(r0, l1) EXCEPT !.hs_read = <<decl>>, !.hs_list = <<OptionOf(decl)>>]
    IN  Handshaken(Take(r1, l2))

\* The program when that constructor has returned.
Constructed ==
    /\ live = {1}
    /\ script = [s \in Sessions |-> <<>>]
    /\ output_queue = [s \in Sessions |-> <<>>]
    /\ output_buffer = <<>>
    /\ mode = [s \in Sessions |-> IF s = 1 THEN "uci" ELSE "off"]
    /\ nemit = [s \in Sessions |-> IF s = 1 THEN 2 ELSE 0]
    /\ sess = [s \in Sessions |-> IF s = 1 THEN Handshook ELSE NewSession]

InitSearch ==
    /\ Constructed
    /\ calls_left = MaxCallsSearch
    /\ lines_left = MaxEmitSearch

\* The search output that go reads without an exception.
SearchLines ==
    {l \in GoLines : parse_info(l).kind = "ok" \/ BestMatches(l) \/ l[2] = "string"}

\* The client sets MultiPV and runs structured searches; the engine writes
\* search output.
NextSearch ==
    \/ \E l \in SearchLines : ReadOutputToQueue(1, l)
    \/ WaitOutputBuffer(1)
    \/ \E value \in 0..MaxPV : set_multi_pv(1, value)
    \/ \E depth \in Depths : go(1, FALSE, depth)
    \/ GoNext(1)
    \/ GoInfo(1)
    \/ GoView(1)
    \/ GoBest(1)

SpecSearch == InitSearch /\ [][NextSearch]_vars

(* ------------- a search with one report of N lines per depth ---------- *)

\* The move the engine puts first in its k-th line.
PvMove == <<"e2e4", "e7e5", "e7e8">>

\* The info line of the engine's report on depth d for its k-th best line.
InfoLine(d, k) ==
    <<"info", "depth", IntStr[d], "seldepth", IntStr[d], "multipv", IntStr[k],
      "score", "cp", "25", "time", "3", "pv", PvMove[k]>>

\* The info lines of a search with MultiPV n: for each depth in turn, the
\* lines multipv 1..n.
Reports(n) ==
    [i \in 1..(n * MaxDepth) |-> InfoLine(((i - 1) \div n) + 1, ((i - 1) % n) + 1)]

\* What the engine writes in such a search: the reports and the bestmove line,
\* with or without one line that is no info line somewhere before the end.
AlignedScripts(n) ==
    LET base == Reports(n) \o << <<"bestmove", "e2e4", "ponder", "e7e5">> >>
    IN  {base} \cup {SubSeq(base, 1, p) \o << <<"info", "string", "hello">> >>
                         \o SubSeq(base, p + 1, Len(base)) : p \in 0..(Len(base) - 1)}

\* Session 1 after the constructor and set_multi_pv(n).
HandshookWith(n) ==
    Return([Put(Begin(Handshook),
                SetOptionSends(Handshook.available_options, "MultiPV", IntStr[n]))
               EXCEPT !.current_multi_pv = n])

\* The program after set_multi_pv(n), with an engine that answers the next go
\* with one of the outputs above.
InitAligned ==
    \E n \in 1..MaxPV :
        \E sc \in AlignedScripts(n) :
            /\ live = {1}
            /\ script = [s \in Sessions |-> IF s = 1 THEN sc ELSE <<>>]
            /\ calls_left = MaxCallsAligned
            /\ lines_left = MaxEmitAligned
            /\ output_queue = [s \in Sessions |-> <<>>]
            /\ output_buffer = <<>>
            /\ mode = [s \in Sessions |-> IF s = 1 THEN "uci" ELSE "off"]
            /\ nemit = [s \in Sessions |-> IF s = 1 THEN 2 ELSE 0]
            /\ sess = [s \in Sessions |-> IF s = 1 THEN HandshookWith(n) ELSE NewSession]

\* One round of the loop of _read_output_to_queue when the engine of session s
\* writes the next line of its output.
ReadScriptToQueue(s) ==
    /\ mode[s] = "go"
    /\ script[s] # <<>>
    /\ lines_left > 0
    /\ lines_left' = lines_left - 1
    /\ script' = [script EXCEPT ![s] = Tail(@)]
    /\ nemit' = [nemit EXCEPT ![s] = @ + 1]
    /\ output_queue' = [output_queue EXCEPT
                            ![s] = Append(@, Published([id |-> nemit[s] + 1, src |-> s,
                                                        raw |-> Head(script[s]) \o <<"\n">>,
                                                        text |-> <<>>]))]
    /\ UNCHANGED <<live, calls_left, output_buffer, mode, sess>>

\* The client runs one structured search on the session.
NextAligned ==
    \/ ReadScriptToQueue(1)
    \/ WaitOutputBuffer(1)
    \/ mode[1] = "uci" /\ \E depth \in Depths : go(1, FALSE, depth)
    \/ GoNext(1)
    \/ GoInfo(1)
    \/ GoView(1)
    \/ GoBest(1)

SpecAligned == InitAligned /\ [][NextAligned]_vars

(* ------------------------------- C1 ----------------------------------- *)

\* C1: with one session, the line a take hands back is the next line its own
\* engine wrote: the k-th take returns the k-th line written, so that no line is
\* lost, doubled or out of order, and it is that line without the white space
\* at its ends.
C1_TakesInEmissionOrder ==
    \A s \in Sessions :
        (live = {s} /\ sess[s].last_take # NoLine) =>
            /\ sess[s].last_take.id = sess[s].ntake
            /\ sess[s].last_take.src = s
            /\ sess[s].last_take.text \o <<"\n">> = sess[s].last_take.raw

\* Three lines were written and taken one by one, the last of them by get().
C1_Witness ==
    /\ live = {1}
    /\ sess[1].ntake = 3
    /\ sess[1].last_take.id = 3
    /\ sess[1].sent = <<>>
    /\ sess[1].pc = "idle"

(* ------------------------------- C2 ----------------------------------- *)

\* C2: a wait that runs out of time with the buffer still short ends the call
\* with a timeout error of its own, not with an out-of-range access.
C2_TimeoutIsExplicit ==
    [][\A s \in Sessions :
          (/\ sess[s].pc \in WaitPcs
           /\ ~Waiting(s)
           /\ TooShort(s)
           /\ sess'[s] # sess[s]) => sess'[s].err = "TimeoutError"]_vars

(* ------------------------------- C3 ----------------------------------- *)

\* C3: a snapshot that go yields in structured mode has as many entries in
\* "lines" as the MultiPV count the session holds, each of them a parsed line.
C3_SnapshotHasMultiPvEntries ==
    \A s \in Sessions :
        sess[s].output # NoAttr =>
            /\ Len(sess[s].output.lines) = sess[s].current_multi_pv
            /\ sess[s].output.next_move = sess[s].output.lines[1].next_move
            /\ sess[s].output.score = sess[s].output.lines[1].score

\* With MultiPV set to 2, go has yielded a snapshot that is not the last.
C3_Witness ==
    /\ sess[1].output # NoAttr
    /\ sess[1].current_multi_pv = 2
    /\ Len(sess[1].output.lines) = 2
    /\ sess[1].output.bestmove = None
    /\ sess[1].sent = << <<"go", "depth", "3">> >>

(* ------------------------------- C4 ----------------------------------- *)

\* C4: a snapshot is the terminal one (continue_flg is false when it is
\* yielded) exactly if its bestmove is set, and without bestmove it has no
\* ponder; continue_flg changes only as a snapshot is yielded or a new go
\* starts; and a next() on the generator ends it exactly if continue_flg is
\* false, so that the terminal snapshot is the last.
C4_TerminalIffBestmove ==
    /\ [](\A s \in Sessions :
              sess[s].output # NoAttr =>
                  /\ (~sess[s].continue_flg) <=> (sess[s].output.bestmove # None)
                  /\ sess[s].output.bestmove = None => sess[s].output.ponder = None)
    /\ [][\A s \in Sessions :
              /\ sess'[s].continue_flg # sess[s].continue_flg =>
                     \/ sess'[s].output # NoAttr
                     \/ sess'[s].sent # <<>> /\ sess'[s].sent[1][1] = "go"
              /\ (GoNext(s) /\ sess[s].gen = "struct") =>
                     ((sess'[s].gen = "done") <=> ~sess[s].continue_flg)]_vars

\* With MultiPV set to 2, go has yielded the snapshot with bestmove and ponder.
C4_Witness ==
    /\ sess[1].output # NoAttr
    /\ sess[1].output.bestmove = "e2e4"
    /\ sess[1].output.ponder = "e7e5"
    /\ Len(sess[1].output.lines) = 2
    /\ ~sess[1].continue_flg

(* ------------------------------- C5 ----------------------------------- *)

\* A step of session s in which its call, waiting at one of pcs, takes the
\* line at the head of the buffer.
TakesAt(s, pcs) ==
    /\ sess[s].pc \in pcs
    /\ ~Waiting(s)
    /\ ~TooShort(s)
    /\ sess'[s] # sess[s]

\* C5: whatever line go reads while it parses telemetry or looks for the
\* bestmove, the read raises nothing: a line that does not parse is skipped.
C5_MalformedLinesSkipped ==
    [][\A s \in Sessions :
          TakesAt(s, {"go_info", "go_best"}) => sess'[s].err = "none"]_vars

(* ------------------------------- C6 ----------------------------------- *)

\* C6: a line a session takes or peeks at was written by its own engine.
C6_BufferOwnedBySession ==
    \A s \in Sessions :
        /\ sess[s].last_take.src \in {0, s}
        /\ sess[s].last_view.src \in {0, s}

(* ------------------------------- C7 ----------------------------------- *)

\* The call of session s that has ended, or is running, is a set_position.
InSetPosition(s) ==
    sess[s].sent # <<>> /\ sess[s].sent[1] = <<"ucinewgame">>

\* C7: set_position writes "ucinewgame", then "isready", and, once it has taken
\* "readyok" and not before, one position command and nothing more.
C7_SetPositionSequence ==
    \A s \in Sessions :
        InSetPosition(s) =>
            IF sess[s].pc = "idle" /\ sess[s].err = "none"
            THEN /\ Len(sess[s].sent) = 3
                 /\ sess[s].sent[2] = <<"isready">>
                 /\ sess[s].sent[3][1] = "position"
                 /\ sess[s].last_take.text = <<"readyok">>
            ELSE /\ sess[s].sent = << <<"ucinewgame">>, <<"isready">> >>
                 /\ sess[s].last_take.text # <<"readyok">>

\* A set_position with a move list has returned.
C7_Witness ==
    /\ sess[1].pc = "idle"
    /\ sess[1].err = "none"
    /\ sess[1].last_take.text = <<"readyok">>
    /\ sess[1].sent = << <<"ucinewgame">>, <<"isready">>,
                         <<"position", "startpos", "moves", "e2e4", "e7e5">> >>

(* ------------------------------- C8 ----------------------------------- *)

\* C8: available_options is set in the step of the handshake that takes
\* "uciok", and no step changes it once it is set.
C8_OptionsFixedAfterHandshake ==
    [][\A s \in Sessions :
          IF sess[s].available_options = NoAttr
          THEN sess'[s].available_options # NoAttr =>
                   /\ TakesAt(s, {"hs"})
                   /\ Head(output_buffer).text = <<"uciok">>
          ELSE sess'[s].available_options = sess[s].available_options]_vars

\* An engine that declared MultiPV has been sent a value for it by set_option,
\* and the option is recorded as the handshake read it.
C8_Witness ==
    /\ sess[1].sent = << <<"setoption", "name", "MultiPV", "value", "2">> >>
    /\ sess[1].current_multi_pv = 1
    /\ sess[1].available_options = ("MultiPV" :> [type |-> "spin", default |-> "default 1"])

(* ------------------------------- C9 ----------------------------------- *)

\* The place of the keyword "type" in an option declaration
\* option name <NAME> type <TYPE> [default <VALUE>], or 0 if text is not one.
DeclarationTypeAt(text) ==
    IF Len(text) >= 5 /\ text[1] = "option" /\ text[2] = "name"
          /\ \E t \in 4..(Len(text) - 1) : text[t] = "type"
    THEN CHOOSE t \in 4..(Len(text) - 1) :
             text[t] = "type" /\ \A u \in 4..(t - 1) : text[u] # "type"
    ELSE 0

\* The names of the option declarations among lines.
DeclaredNames(lines) ==
    {Join(SubSeq(lines[i], 3, DeclarationTypeAt(lines[i]) - 1)) :
        i \in {j \in 1..Len(lines) : DeclarationTypeAt(lines[j]) # 0}}

\* C9: the handshake reads on until it has taken "uciok", and with that line
\* the constructor is done with the buffer; the names in available_options are
\* then the names of the option declarations read before it.
C9_HandshakeReadsToUciok ==
    [][\A s \in Sessions :
          TakesAt(s, {"hs"}) =>
              IF Head(output_buffer).text = <<"uciok">>
              THEN /\ sess'[s].pc = "idle"
                   /\ output_buffer' = Tail(output_buffer)
                   /\ DOMAIN sess'[s].available_options = DeclaredNames(sess[s].hs_read)
              ELSE /\ sess'[s].pc = "hs"
                   /\ sess'[s].hs_read = Append(sess[s].hs_read, Head(output_buffer).text)]_vars

(* ------------------------------- C10 ---------------------------------- *)

\* C10: set_option with a name that is not in available_options writes
\* nothing, takes nothing and raises nothing; with a name that is, it writes
\* one setoption command for that name.
C10_SetOptionChecksName ==
    [][\A s \in Sessions, name \in OptionNames, option \in OptionValues :
          set_option(s, name, option) =>
              IF name \notin DOMAIN sess[s].available_options
              THEN /\ sess'[s].sent = <<>>
                   /\ sess'[s].err = "none"
                   /\ sess'[s].pc = "idle"
                   /\ sess'[s].ntake = sess[s].ntake
                   /\ UNCHANGED <<output_buffer, output_queue>>
              ELSE /\ Len(sess'[s].sent) = 1
                   /\ SubSeq(sess'[s].sent[1], 1, 3) = <<"setoption", "name", name>>]_vars

\* set_option has been called with the name Ponder on an engine that declared
\* MultiPV alone: nothing was written, taken or raised.
C10_Witness ==
    /\ sess[1].available_options # NoAttr
    /\ DOMAIN sess[1].available_options = {"MultiPV"}
    /\ calls_left = MaxCalls - 2
    /\ sess[1].sent = <<>>
    /\ sess[1].err = "none"
    /\ sess[1].last_view = NoLine
    /\ sess[1].ntake = 2
    /\ sess[1].pc = "idle"

(* ------------------------------- C11 ---------------------------------- *)

\* C11: in raw mode each yield takes the line at the head of the buffer and
\* hands it on as it is; a next() ends the sequence exactly if the line yielded
\* last contains "bestmove", and then takes nothing, so that no line after the
\* bestmove line is consumed and none before it is skipped.
C11_RawModePassesLines ==
    [][\A s \in Sessions :
          /\ TakesAt(s, {"raw"}) =>
                /\ sess'[s].raw_resp = Head(output_buffer).text
                /\ sess'[s].last_take = Head(output_buffer)
                /\ output_buffer' = Tail(output_buffer)
                /\ sess'[s].pc = "idle"
                /\ sess'[s].gen = "raw"
          /\ (GoNext(s) /\ sess[s].gen = "raw") =>
                IF HasBestmove(sess[s].raw_resp)
                THEN /\ sess'[s].gen = "done"
                     /\ sess'[s].pc = "idle"
                     /\ sess'[s].ntake = sess[s].ntake
                     /\ UNCHANGED <<output_buffer, output_queue>>
                ELSE /\ sess'[s].gen = "raw"
                     /\ sess'[s].pc = "raw"]_vars

\* The raw sequence has yielded an info line and then the bestmove line.
C11_Witness ==
    /\ sess[1].gen = "raw"
    /\ sess[1].pc = "idle"
    /\ sess[1].raw_resp = <<"bestmove", "e2e4", "ponder", "e7e5">>
    /\ sess[1].ntake = 3
    /\ calls_left = 0

(* ------------------------------- C12 ---------------------------------- *)

\* C12: the clock of a wait starts with the wait: every get / view begins with
\* no time elapsed, whatever the call or the session has waited before; each
\* round of the wait adds one; and a wait ends with the buffer still short
\* only when its own clock has reached the timeout.
C12_TimeoutPerWait ==
    /\ [](\A s \in Sessions : sess[s].elapsed <= TimeoutPolls)
    /\ [][\A s \in Sessions :
              /\ (/\ sess'[s].pc \in WaitPcs
                  /\ \/ sess'[s].pc # sess[s].pc
                     \/ sess'[s].ntake # sess[s].ntake) => sess'[s].elapsed = 0
              /\ WaitOutputBuffer(s) => sess'[s].elapsed = sess[s].elapsed + 1
              /\ (/\ sess[s].pc \in WaitPcs
                  /\ ~Waiting(s)
                  /\ TooShort(s)
                  /\ sess'[s] # sess[s]) =>
                     /\ sess[s].elapsed = TimeoutPolls
                     /\ sess'[s].err = "IndexError"]_vars

\* is_ready has slept through more than one timeout in all, over two waits, and
\* the line its second wait needs is in the buffer: the call will not time out.
C12_Witness ==
    /\ sess[1].pc = "ready"
    /\ sess[1].slept > TimeoutPolls
    /\ sess[1].elapsed = 1
    /\ output_buffer # <<>>
    /\ Head(output_buffer).text = <<"readyok">>

(* ------------------------------- C13 ---------------------------------- *)

\* C13: the terminal snapshot carries the move tokens of the bestmove line
\* whole: bestmove is the token after "bestmove", and ponder is the token after
\* "ponder", or None when the line has no ponder part.
C13_BestmoveTokensWhole ==
    \A s \in Sessions :
        (sess[s].output # NoAttr /\ sess[s].output.bestmove # None) =>
            LET line == sess[s].last_take.text
            IN  /\ sess[s].output.bestmove = line[2]
                /\ sess[s].output.ponder =
                       IF Len(line) >= 4 /\ line[3] = "ponder" THEN line[4] ELSE None

(* ------------------------------- C14 ---------------------------------- *)

\* The position command with the keyword "moves" for a non-empty list only.
PositionWithMoves(fen, moves) ==
    <<"position">>
        \o (IF fen = None THEN <<"startpos">> ELSE <<"fen", fen>>)
        \o (IF moves.given /\ moves.list # <<>> THEN <<"moves">> \o moves.list ELSE <<>>)

\* C14: the position command set_position makes, and sends once it has taken
\* "readyok", has the keyword "moves" and the move tokens exactly if a
\* non-empty move list was given; without a list, or with an empty one, it is
\* "position startpos" or "position fen <FEN>" and no more (white space at the
\* end of the command set aside).
C14_MovesKeywordIffMoves ==
    [][\A s \in Sessions :
          /\ \A fen \in Fens, moves \in MovesArgs :
                set_position(s, fen, moves) =>
                    Strip(sess'[s].pending) = PositionWithMoves(fen, moves)
          /\ (/\ sess[s].ctx = "set_position"
              /\ sess'[s].pc = "idle"
              /\ sess'[s].err = "none") =>
                    sess'[s].sent = << <<"ucinewgame">>, <<"isready">>, sess[s].pending >>]_vars

(* ------------------------------- C15 ---------------------------------- *)

\* C15: structured go, with info lines of the pass already collected, never
\* takes the bestmove line in its loops over info lines, where a line that does
\* not parse is dropped: the bestmove line is taken only for the terminal
\* snapshot.
C15_BestmoveNotNoise ==
    \A s \in Sessions :
        (sess[s].pc = "go_info" /\ sess[s].lines_list # <<>>) =>
            ~HasBestmove(sess[s].last_take.text)

(* ------------------------------- C16 ---------------------------------- *)

\* C16: current_multi_pv is the MultiPV value last sent to the engine in a
\* setoption command, or 1 if none was sent.
C16_TrackedMultiPvIsSent ==
    \A s \in Sessions : sess[s].current_multi_pv = sess[s].multipv_sent

(* ------------------------------- C17 ---------------------------------- *)

\* C17: with one session, view(i) returns the (i + 1)-th line not yet taken, in
\* the order the engine wrote them, and removes nothing: a round of its wait
\* only appends to the buffer, its return leaves buffer and queue as they are,
\* the line it returned stays at its place in the buffer until it is taken,
\* and a get() that follows view(0) finds that line at the head and returns it.
C17_ViewRemovesNothing ==
    /\ [](\A s \in Sessions :
              (live = {s} /\ sess[s].last_view.id > sess[s].ntake) =>
                  /\ Len(output_buffer) >= sess[s].last_view.id - sess[s].ntake
                  /\ output_buffer[sess[s].last_view.id - sess[s].ntake] = sess[s].last_view)
    /\ [][\A s \in Sessions :
              live = {s} =>
                  /\ WaitOutputBuffer(s) =>
                        SubSeq(output_buffer', 1, Len(output_buffer)) = output_buffer
                  /\ TakesAt(s, {"view"}) =>
                        /\ sess'[s].last_view = output_buffer[sess[s].want]
                        /\ sess'[s].last_view.id = sess[s].ntake + sess[s].want
                        /\ sess'[s].ntake = sess[s].ntake
                        /\ UNCHANGED <<output_buffer, output_queue>>
                  /\ (get(s) /\ sess[s].last_view.id = sess[s].ntake + 1) =>
                        Head(output_buffer) = sess[s].last_view
                  /\ TakesAt(s, {"get"}) => sess'[s].last_take = Head(output_buffer)]_vars

\* view(1) has returned the second of two buffered lines, and both are still
\* in the buffer.
C17_Witness ==
    /\ sess[1].pc = "idle"
    /\ sess[1].sent = <<>>
    /\ sess[1].last_view.id = sess[1].ntake + 2
    /\ Len(output_buffer) = 2
    /\ output_buffer[2] = sess[1].last_view

(* ------------------------------- C18 ---------------------------------- *)

\* C18: is_ready writes "isready" once and nothing else; each of its reads
\* removes the head of the buffer alone; it reads on after any line that is not
\* "readyok" and returns with the read of "readyok", so that the lines behind
\* that line stay in the buffer in their order; and it has returned without an
\* exception only if the line it took last is "readyok".
C18_IsReadyReadsToReadyok ==
    /\ [](\A s \in Sessions :
              /\ sess[s].ctx = "is_ready" => sess[s].sent = << <<"isready">> >>
              /\ (/\ sess[s].sent = << <<"isready">> >>
                  /\ sess[s].pc = "idle"
                  /\ sess[s].err = "none") => sess[s].last_take.text = <<"readyok">>)
    /\ [][\A s \in Sessions :
              /\ is_ready(s) =>
                    /\ sess'[s].sent = << <<"isready">> >>
                    /\ UNCHANGED <<output_buffer, output_queue>>
              /\ (TakesAt(s, {"ready"}) /\ sess[s].ctx = "is_ready") =>
                    /\ output_buffer' = Tail(output_buffer)
                    /\ UNCHANGED output_queue
                    /\ sess'[s].last_take = Head(output_buffer)
                    /\ IF Head(output_buffer).text = <<"readyok">>
                       THEN sess'[s].pc = "idle" /\ sess'[s].err = "none"
                       ELSE sess'[s].pc = "ready"]_vars

\* is_ready has returned, and a line the engine wrote after "readyok" is still
\* in the buffer.
C18_Witness ==
    /\ sess[1].pc = "idle"
    /\ sess[1].err = "none"
    /\ sess[1].sent = << <<"isready">> >>
    /\ sess[1].last_take.text = <<"readyok">>
    /\ output_buffer # <<>>
    /\ Head(output_buffer).id = sess[1].last_take.id + 1

(* ------------------------------- C19 ---------------------------------- *)

IsInfoText(t) == parse_info(t).kind = "ok"

\* The parsed info lines among the given line texts, in order.
ParsedInfos(texts) ==
    LET infos == SelectSeq(texts, IsInfoText)
    IN  [i \in 1..Len(infos) |-> parse_info(infos[i]).val]

\* The texts of what session s has not taken yet: the shared buffer, its
\* queue, and what its engine is still to write.
AheadTexts(s) ==
    [i \in 1..Len(output_buffer) |-> output_buffer[i].text]
        \o [i \in 1..Len(output_queue[s]) |-> Strip(output_queue[s][i].raw)]
        \o script[s]

\* The parsed info lines of a search with MultiPV n from the report on depth d on.
StreamFrom(d, n) ==
    LET all == ParsedInfos(Reports(n))
    IN  SubSeq(all, (d - 1) * n + 1, Len(all))

\* The info lines session s holds: those of the snapshot it has yielded, or
\* those it has collected for the next one.
HeldInfos(s) ==
    IF sess[s].output # NoAttr THEN sess[s].output.lines ELSE sess[s].lines_list

\* C20: when the engine writes, for each depth, the info lines multipv 1..N in
\* that order (N the tracked MultiPV count), with or without a line that is no
\* info line in between, every snapshot structured go() yields has N lines,
\* the k-th being the multipv=k line, all of one depth, with next_move and
\* score those of the multipv=1 line; and as long as go has not failed, the
\* lines held for the snapshot followed by the info lines still ahead are the
\* engine's reports from one depth on, so that no info line is used in two
\* snapshots and none is skipped.
C20_SnapshotsAligned ==
    \A s \in live :
        LET n == sess[s].current_multi_pv
            out == sess[s].output
        IN  /\ out # NoAttr =>
                  /\ Len(out.lines) = n
                  /\ \A k \in 1..n : /\ out.lines[k].multipv = k
                                     /\ out.lines[k].depth = out.lines[1].depth
                  /\ out.next_move = out.lines[1].next_move
                  /\ out.score = out.lines[1].score
            /\ sess[s].err = "none" =>
                  \E d \in 1..(MaxDepth + 1) :
                      HeldInfos(s) \o ParsedInfos(AheadTexts(s)) = StreamFrom(d, n)

\* With MultiPV 2, the snapshot of the second depth has been yielded, after
\* the one of the first.
C20_Witness ==
    /\ sess[1].current_multi_pv = 2
    /\ sess[1].pc = "idle"
    /\ sess[1].output # NoAttr
    /\ Len(sess[1].output.lines) = 2
    /\ sess[1].output.lines[1].depth = 2
    /\ sess[1].output.lines[2].multipv = 2

====
